---- MODULE Spec2Model ----
(***************************************************************************)
(* Model of the NexusAnchor canonical receipt verifier                     *)
(* (src/nexus_verifier.py) and of the receipt helpers around it.           *)
(*                                                                         *)
(* Byte strings are sequences of integers 0..255, hex strings are          *)
(* sequences of one-character strings.  Integers of the model are below    *)
(* 2^31, so the uint64 limit of the counter is scaled down (U64_MAX).      *)
(* Keccak-256 is a library function: it is modelled by a concrete 32-byte  *)
(* hash that is collision-free on the inputs of the model.                 *)
(***************************************************************************)
EXTENDS Integers, Sequences, FiniteSets, TLC

(***************************************************************************)
(* Bounds of the model                                                     *)
(***************************************************************************)
\* stands for 2**64 - 1 (nexus_verifier.py:282): the largest counter a receipt may carry
U64_MAX == 3

\* the largest counter of the receipts submitted one call at a time (Spec, SpecStore)
MaxCounter == 2

\* number of concurrent callers of verify_attestation in SpecConc
NThreads == 3

(***************************************************************************)
(* Program constants                                                       *)
(***************************************************************************)
HASH_LEN == 32

COUNTER_LEN == 8

\* b"NEXUS_RCT_V1"
NEXUS_RCT_DOMAIN == <<78, 69, 88, 85, 83, 95, 82, 67, 84, 95, 86, 49>>

\* DOMAIN = b"anchor_RCT_V1" of benchmark_receipts.py and prove_and_submit.py
ANCHOR_RCT_DOMAIN == <<97, 110, 99, 104, 111, 114, 95, 82, 67, 84, 95, 86, 49>>

\* CHAIN_ID_DEFAULT of benchmark_receipts.py
CHAIN_ID_DEFAULT == 421614

(***************************************************************************)
(* bytes and hex strings                                                   *)
(***************************************************************************)
HexDigits == <<"0", "1", "2", "3", "4", "5", "6", "7", "8", "9", "a", "b", "c", "d", "e", "f">>

IsHexChar(c) == \E i \in 1..16 : HexDigits[i] = c

HexVal(c) == (CHOOSE i \in 1..16 : HexDigits[i] = c) - 1

Rep(n, x) == [i \in 1..n |-> x]

\* str.startswith("0x")
StartsWith0x(s) == Len(s) >= 2 /\ s[1] = "0" /\ s[2] = "x"

\* s[2:] if s.startswith("0x") else s
Strip0x(s) == IF StartsWith0x(s) THEN SubSeq(s, 3, Len(s)) ELSE s

\* str.replace("0x", ""): every occurrence is removed, left to right
Remove0x(s) ==
    LET gone(i) == \/ (i < Len(s) /\ s[i] = "0" /\ s[i + 1] = "x")
                   \/ (i > 1 /\ s[i - 1] = "0" /\ s[i] = "x")
        kept == {i \in 1..Len(s) : ~gone(i)}
    IN  [k \in 1..Cardinality(kept) |->
            s[CHOOSE i \in kept : Cardinality({j \in kept : j < i}) = k - 1]]

\* bytes.fromhex raises ValueError on an odd number of digits or a non-hex character
FromHexOk(s) == Len(s) % 2 = 0 /\ \A i \in 1..Len(s) : IsHexChar(s[i])

FromHex(s) == [i \in 1..(Len(s) \div 2) |-> 16 * HexVal(s[2 * i - 1]) + HexVal(s[2 * i])]

\* bytes.hex()
ToHex(b) ==
    [i \in 1..(2 * Len(b)) |->
        IF i % 2 = 1 THEN HexDigits[(b[(i + 1) \div 2] \div 16) + 1]
                     ELSE HexDigits[(b[i \div 2] % 16) + 1]]

\* int.to_bytes(8, byteorder='big'); the integers of the model are below 2^31,
\* so the four high bytes are zero
CounterBE(n) ==
    [i \in 1..COUNTER_LEN |->
        IF COUNTER_LEN - i >= 4 THEN 0 ELSE (n \div (256 ^ (COUNTER_LEN - i))) % 256]

(***************************************************************************)
(* Keccak-256 stand-in: absorb the material into one accumulator, squeeze  *)
(* 32 bytes out of it.  The first four bytes are the accumulator itself,   *)
(* so two materials with different accumulators have different digests.    *)
(***************************************************************************)
RECURSIVE Absorb(_, _, _)
Absorb(m, lo, hi) ==
    IF lo > hi THEN 7
    ELSE IF lo = hi THEN m[lo] + lo
    ELSE LET mid == (lo + hi) \div 2
         IN  (Absorb(m, lo, mid) * 31 + Absorb(m, mid + 1, hi) * 17 + 7) % 33554393

keccak(m) ==
    LET acc == Absorb(m, 1, Len(m))
    IN  [i \in 1..HASH_LEN |->
            IF i <= 4 THEN (acc \div (256 ^ (i - 1))) % 256
                      ELSE (acc * ((i % 7) + 1) + i) % 256]

(***************************************************************************)
(* JSON input of verify_attestation.  A blob is text that json.loads       *)
(* cannot decode, or a decoded value: an object (a function from its keys  *)
(* to values) or another value.  A value is a string, an integer or null.  *)
(***************************************************************************)
JStr(s) == [t |-> "str", s |-> s, n |-> 0]

JInt(n) == [t |-> "int", s |-> <<>>, n |-> n]

JNull == [t |-> "null", s |-> <<>>, n |-> 0]

JObject(f) == [kind |-> "object", fields |-> f]

JGarbage == [kind |-> "undecodable", fields |-> <<>>]

JArray == [kind |-> "array", fields |-> <<>>]

\* what dict.get(key) returns for a key the object does not have
JMissing == [t |-> "missing", s |-> <<>>, n |-> 0]

\* Receipt dataclass
Receipt(hw, fw, ex, ctr, dg) ==
    [hardware_identity |-> hw, firmware_hash |-> fw, execution_hash |-> ex,
     counter |-> ctr, receipt_digest |-> dg]

NoReceipt == Receipt(<<>>, <<>>, <<>>, 0, <<>>)

NONE == "none"

\* a value, or the exception raised in its place
Ok(v) == [exc |-> NONE, v |-> v]

Raise(exc) == [exc |-> exc, v |-> <<>>]

\* the exceptions _parse_receipt turns into "Invalid receipt format"
ParseErrors == {"JSONDecodeError", "KeyError", "ValueError", "AssertionError"}

\* data.get(key)
Get(data, key) == IF key \in DOMAIN data THEN data[key] ELSE JMissing

\* assert len(x) == 32
Assert32(bytes) == IF Len(bytes) # HASH_LEN THEN Raise("AssertionError") ELSE Ok(bytes)

\* bytes.fromhex(hex), then the length assertion
DecodeHex32(hex) == IF ~FromHexOk(hex) THEN Raise("ValueError") ELSE Assert32(FromHex(hex))

\* one 32-byte hex field data[key]: a missing key raises KeyError, a value that is
\* no string has no startswith; then x[2:] if x.startswith("0x") else x
ParseHex32(v) ==
    IF v.t = "missing" THEN Raise("KeyError")
    ELSE IF v.t # "str" THEN Raise("AttributeError")
    ELSE DecodeHex32(Strip0x(v.s))

\* Python truthiness of a decoded JSON value
Truthy(v) ==
    CASE v.t = "str" -> Len(v.s) > 0
      [] v.t = "int" -> v.n # 0
      [] OTHER -> FALSE

\* firmware_hash = data.get("firmware_hash"), then the branch on its truthiness:
\* a missing, null or empty firmware hash becomes bytes(32)
ParseFirmware(v) == IF Truthy(v) THEN ParseHex32(v) ELSE Ok(Rep(HASH_LEN, 0))

DecDigits == <<"0", "1", "2", "3", "4", "5", "6", "7", "8", "9">>

IsDecChar(c) == \E i \in 1..10 : DecDigits[i] = c

RECURSIVE DecVal(_, _)
DecVal(s, n) == IF n = 0 THEN 0 ELSE 10 * DecVal(s, n - 1) + HexVal(s[n])

\* assert counter >= 0; assert counter <= 2**64 - 1
AssertU64(counter) ==
    IF ~(counter >= 0) THEN Raise("AssertionError")
    ELSE IF ~(counter <= U64_MAX) THEN Raise("AssertionError")
    ELSE Ok(counter)

\* int(data["counter"]), then the two range assertions
ParseCounter(v) ==
    CASE v.t = "missing" -> Raise("KeyError")
      [] v.t = "int" -> AssertU64(v.n)
      [] v.t = "str" ->
            IF Len(v.s) > 0 /\ \A i \in 1..Len(v.s) : IsDecChar(v.s[i])
            THEN AssertU64(DecVal(v.s, Len(v.s)))
            ELSE Raise("ValueError")
      [] OTHER -> Raise("TypeError")

\* the statements of the try block, in the order they run
ParsedFields(data) ==
    <<ParseHex32(Get(data, "hardware_identity")),
      ParseFirmware(Get(data, "firmware_hash")),
      ParseHex32(Get(data, "execution_hash")),
      ParseHex32(Get(data, "receipt_digest")),
      ParseCounter(Get(data, "counter"))>>

\* the exception of the first statement that raises, or NONE
FirstException(fields) ==
    IF \A i \in 1..Len(fields) : fields[i].exc = NONE THEN NONE
    ELSE fields[CHOOSE i \in 1..Len(fields) :
                    fields[i].exc # NONE /\ \A k \in 1..(i - 1) : fields[k].exc = NONE].exc

\* the except clause: the four exceptions it names become "Invalid receipt format",
\* any other exception leaves _parse_receipt as it is
ParseResult(exc, fields) ==
    IF exc = NONE
    THEN [exc |-> NONE,
          receipt |-> Receipt(fields[1].v, fields[2].v, fields[3].v, fields[5].v, fields[4].v)]
    ELSE IF exc \in ParseErrors THEN [exc |-> "Invalid receipt format", receipt |-> NoReceipt]
    ELSE [exc |-> exc, receipt |-> NoReceipt]

ParseObject(fields) == ParseResult(FirstException(fields), fields)

\* _parse_receipt: json.loads, then the fields; data["hardware_identity"] on a decoded
\* value that is no object raises TypeError
_parse_receipt(json_blob) ==
    IF json_blob.kind = "undecodable" THEN ParseResult("JSONDecodeError", <<>>)
    ELSE IF json_blob.kind # "object" THEN ParseResult("TypeError", <<>>)
    ELSE ParseObject(ParsedFields(json_blob.fields))

(***************************************************************************)
(* The values of the source: the node and firmware __init__ registers,     *)
(* and the receipt of the module's own security tests.                     *)
(***************************************************************************)
\* pat repeated n times: pat * n
Repeat(n, pat) == [i \in 1..(n * Len(pat)) |-> pat[((i - 1) % Len(pat)) + 1]]

\* "52fdfc072182654f163f5f" + "0f" * 21
ALPHA_HEX ==
    <<"5", "2", "f", "d", "f", "c", "0", "7", "2", "1", "8", "2", "6", "5", "4", "f",
      "1", "6", "3", "f", "5", "f">> \o Repeat(21, <<"0", "f">>)

\* "ff" * 32: the unauthorized node of the module's TEST 3
FF_HEX == Repeat(32, <<"f", "f">>)

\* "1234567890abcdef" * 4
FW_HEX == Repeat(4, <<"1", "2", "3", "4", "5", "6", "7", "8", "9", "0", "a", "b", "c", "d", "e", "f">>)

\* bytes(32).hex(): the value _parse_receipt puts in place of a missing firmware hash
ZERO_HEX == Repeat(32, <<"0", "0">>)

\* "deadbeefcafebabe" + "0" * 47 + "1"
EXEC_HEX ==
    <<"d", "e", "a", "d", "b", "e", "e", "f", "c", "a", "f", "e", "b", "a", "b", "e">>
        \o Rep(47, "0") \o <<"1">>

\* "ab" * 32: the forged digest of the module's TEST 4
FORGED_HEX == Repeat(32, <<"a", "b">>)

HW_ALPHA == FromHex(ALPHA_HEX)

HW_FF == FromHex(FF_HEX)

FW_DEFAULT == FromHex(FW_HEX)

Prefix0x(hex) == <<"0", "x">> \o hex

(***************************************************************************)
(* Digest reconstruction                                                   *)
(***************************************************************************)
\* the material under the domain tag of the other scripts
ReceiptMaterial_anchor(receipt) ==
    ANCHOR_RCT_DOMAIN \o receipt.hardware_identity \o receipt.firmware_hash
        \o receipt.execution_hash \o CounterBE(receipt.counter)

\* NEXUS_RCT_DOMAIN + hardware_identity + firmware_hash + execution_hash + counter_be
ReceiptMaterial(receipt) ==
    NEXUS_RCT_DOMAIN \o receipt.hardware_identity \o receipt.firmware_hash
        \o receipt.execution_hash \o CounterBE(receipt.counter)

\* reconstructed_digest = keccak(receipt_material)
ReconstructedDigest(receipt) == keccak(ReceiptMaterial(receipt))

\* bad = bytearray(d); bad[-1] ^= 1
FlipLastBit(d) ==
    [d EXCEPT ![Len(d)] = IF @ % 2 = 0 THEN @ + 1 ELSE @ - 1]

(***************************************************************************)
(* The receipts submitted to the verifier.  A well-formed receipt is built *)
(* as the module's tests build theirs: the four fields as 0x-prefixed hex, *)
(* the digest computed over them, forged ("ab" * 32) or with its last bit  *)
(* flipped.  The firmware hash may be left out.                            *)
(***************************************************************************)
HwHexes == {ALPHA_HEX, FF_HEX}

FwChoices == {"default", "zero", "omitted"}

DigestKinds == {"computed", "forged", "flipped"}

FwHexOf(fw) == IF fw = "default" THEN FW_HEX ELSE ZERO_HEX

\* the digest of a test receipt: computed, computed with its last bit flipped, or forged
DigestVariant(d, dk) ==
    CASE dk = "computed" -> ToHex(d)
      [] dk = "flipped" -> ToHex(FlipLastBit(d))
      [] OTHER -> FORGED_HEX

DigestHexOf(hw_hex, fw, counter, dk) ==
    DigestVariant(ReconstructedDigest(Receipt(FromHex(hw_hex), FromHex(FwHexOf(fw)),
                                              FromHex(EXEC_HEX), counter, <<>>)), dk)

\* the JSON object of a receipt; the firmware hash is left out when fw_hex is empty
ReceiptObject(hw_hex, fw_hex, digest_hex, counter) ==
    IF fw_hex = <<>>
    THEN JObject([hardware_identity |-> JStr(Prefix0x(hw_hex)),
                  execution_hash |-> JStr(Prefix0x(EXEC_HEX)),
                  receipt_digest |-> JStr(Prefix0x(digest_hex)),
                  counter |-> JInt(counter)])
    ELSE JObject([hardware_identity |-> JStr(Prefix0x(hw_hex)),
                  firmware_hash |-> JStr(Prefix0x(fw_hex)),
                  execution_hash |-> JStr(Prefix0x(EXEC_HEX)),
                  receipt_digest |-> JStr(Prefix0x(digest_hex)),
                  counter |-> JInt(counter)])

TestReceipt(hw_hex, fw, counter, dk) ==
    ReceiptObject(hw_hex, IF fw = "omitted" THEN <<>> ELSE FwHexOf(fw),
                  DigestHexOf(hw_hex, fw, counter, dk), counter)

\* every receipt of the model: the sets below select from it
TestReceipts ==
    [hw \in HwHexes, fw \in FwChoices, c \in 0..U64_MAX, dk \in DigestKinds |->
        TestReceipt(hw, fw, c, dk)]

WellFormedBlobs ==
    {TestReceipts[hw, fw, c, dk] :
        hw \in HwHexes, fw \in FwChoices, c \in 0..MaxCounter, dk \in DigestKinds}

(***************************************************************************)
(* Receipts whose digest follows another layout of the repository: the     *)
(* chain-scoped one of scripts/benchmark_receipts.py and the unscoped one  *)
(* of zkp/scripts/prove_and_submit.py, both under the domain anchor_RCT_V1.*)
(***************************************************************************)
\* benchmark_receipts.compute_digest
compute_digest(chain_id, hw_id, fw_hash, exec_hash, counter) ==
    keccak(ANCHOR_RCT_DOMAIN \o CounterBE(chain_id) \o hw_id \o fw_hash \o exec_hash
               \o CounterBE(counter))

\* prove_and_submit.build_receipt_material
build_receipt_material(hw_id, fw_hash, exec_hash, counter) ==
    ANCHOR_RCT_DOMAIN \o hw_id \o fw_hash \o exec_hash \o CounterBE(counter)

LayoutKinds == {"chain_scoped", "unscoped"}

OtherLayoutDigest(hw_id, counter, lk) ==
    IF lk = "chain_scoped"
    THEN compute_digest(CHAIN_ID_DEFAULT, hw_id, FW_DEFAULT, FromHex(EXEC_HEX), counter)
    ELSE keccak(build_receipt_material(hw_id, FW_DEFAULT, FromHex(EXEC_HEX), counter))

\* the default receipt of each node and counter, with its digest under another layout
OtherLayoutReceipts ==
    [hw \in HwHexes, c \in 0..MaxCounter, lk \in LayoutKinds |->
        ReceiptObject(hw, FW_HEX, ToHex(OtherLayoutDigest(FromHex(hw), c, lk)), c)]

OtherLayoutBlobs ==
    {OtherLayoutReceipts[hw, c, lk] : hw \in HwHexes, c \in 0..MaxCounter, lk \in LayoutKinds}

(***************************************************************************)
(* generate_test_receipt.py: the receipts of the test generator            *)
(***************************************************************************)
\* the material with the firmware hash ahead of the hardware identity
GeneratorMaterial_fw_first(hw_id_bytes, fw_hash_bytes, exec_hash_bytes, counter) ==
    NEXUS_RCT_DOMAIN \o fw_hash_bytes \o hw_id_bytes \o exec_hash_bytes \o CounterBE(counter)

\* receipt_material of the generator
GeneratorMaterial(hw_id_bytes, fw_hash_bytes, exec_hash_bytes, counter) ==
    NEXUS_RCT_DOMAIN \o hw_id_bytes \o fw_hash_bytes \o exec_hash_bytes \o CounterBE(counter)

\* the dict the generator returns
GeneratedReceipt(hardware_identity, firmware_hash, execution_hash, counter) ==
    JObject([hardware_identity |-> JStr(Prefix0x(hardware_identity)),
             firmware_hash |-> JStr(Prefix0x(firmware_hash)),
             execution_hash |-> JStr(Prefix0x(execution_hash)),
             receipt_digest |->
                 JStr(Prefix0x(ToHex(keccak(GeneratorMaterial(FromHex(hardware_identity),
                                                              FromHex(firmware_hash),
                                                              FromHex(execution_hash),
                                                              counter))))),
             counter |-> JInt(counter)])

\* the generator after the 0x markers are removed: the asserts, bytes.fromhex, the dict
GenerateStripped(hardware_identity, firmware_hash, execution_hash, counter) ==
    IF \/ Len(hardware_identity) # 2 * HASH_LEN
       \/ Len(firmware_hash) # 2 * HASH_LEN
       \/ Len(execution_hash) # 2 * HASH_LEN
       \/ ~(0 <= counter /\ counter <= U64_MAX)
    THEN Raise("AssertionError")
    ELSE IF ~(FromHexOk(hardware_identity) /\ FromHexOk(firmware_hash)
                 /\ FromHexOk(execution_hash))
    THEN Raise("ValueError")
    ELSE Ok(GeneratedReceipt(hardware_identity, firmware_hash, execution_hash, counter))

generate_test_receipt(hardware_identity, firmware_hash, execution_hash, counter) ==
    GenerateStripped(Remove0x(hardware_identity), Remove0x(firmware_hash),
                     Remove0x(execution_hash), counter)

\* the arguments the generator is called with: hex with and without the 0x marker,
\* one value too short, one that is no hex, counters in and out of range
GeneratorHardware ==
    {ALPHA_HEX, Prefix0x(FF_HEX), SubSeq(ALPHA_HEX, 1, 62), Rep(64, "z")}

GeneratorFirmware == {Prefix0x(FW_HEX), ZERO_HEX}

GeneratorCounters == (0 - 1)..MaxCounter

GeneratedReceipts ==
    [hw \in GeneratorHardware, fw \in GeneratorFirmware, c \in GeneratorCounters |->
        generate_test_receipt(hw, fw, EXEC_HEX, c)]

\* json.dumps of the receipts the generator returned
GeneratedBlobs ==
    {GeneratedReceipts[a].v : a \in {x \in DOMAIN GeneratedReceipts : GeneratedReceipts[x].exc = NONE}}

\* the fields that replace one of the default receipt's
FieldEdits ==
    {<<"hardware_identity", JStr(Prefix0x(SubSeq(ALPHA_HEX, 1, 62)))>>,
     <<"execution_hash", JStr(Prefix0x(Rep(64, "z")))>>,
     <<"receipt_digest", JInt(5)>>,
     <<"counter", JInt(0 - 1)>>,
     <<"counter", JInt(U64_MAX + 1)>>,
     <<"counter", JNull>>,
     <<"counter", JMissing>>,
     <<"hardware_identity", JStr(ALPHA_HEX)>>,
     <<"counter", JStr(<<"1">>)>>,
     <<"firmware_hash", JStr(<<>>)>>,
     <<"firmware_hash", JStr(Prefix0x(<<>>))>>,
     <<"firmware_hash", JStr(Prefix0x(SubSeq(FW_HEX, 1, 62)))>>}

\* r with the field key replaced by v, or without it when v is JMissing
Edited(r, key, v) ==
    JObject([k \in (DOMAIN r.fields) \ (IF v = JMissing THEN {key} ELSE {}) |->
                IF k = key THEN v ELSE r.fields[k]])

\* malformed receipts, and well-formed ones in another spelling (hex without the 0x
\* marker, the counter as a string)
EditedBlobs(r) == {Edited(r, e[1], e[2]) : e \in FieldEdits} \cup {JGarbage, JArray}

JsonBlobs ==
    WellFormedBlobs \cup EditedBlobs(TestReceipts[ALPHA_HEX, "default", 1, "computed"])
        \cup OtherLayoutBlobs \cup GeneratedBlobs

\* the receipts of the concurrent callers: every counter for the default node with
\* its computed digest, and one receipt for each way of being rejected
ConcBlobs ==
    {TestReceipts[ALPHA_HEX, "default", c, "computed"] : c \in 0..U64_MAX}
        \cup {TestReceipts[FF_HEX, "default", 1, "computed"],
              TestReceipts[ALPHA_HEX, "zero", 1, "computed"],
              TestReceipts[ALPHA_HEX, "default", 1, "forged"],
              JGarbage}

(***************************************************************************)
(* _parse_receipt and the digest reconstruction are evaluated once for     *)
(* every receipt of the model and looked up afterwards.                    *)
(***************************************************************************)
ParseTable == [j \in JsonBlobs \cup ConcBlobs |-> _parse_receipt(j)]

DigestTable ==
    [r \in {ParseTable[j].receipt : j \in JsonBlobs \cup ConcBlobs} |-> ReconstructedDigest(r)]

(***************************************************************************)
(* The policy store: Python dicts are functions, dict.get has a default    *)
(***************************************************************************)
\* a default below every counter: counter_db.get(hardware_identity, -1)
last_counter_below_zero(db, hw) == IF hw \in DOMAIN db THEN db[hw] ELSE 0 - 1

\* counter_db.get(hardware_identity, 0)
last_counter(db, hw) == IF hw \in DOMAIN db THEN db[hw] ELSE 0

\* d.setdefault(key, value): an existing entry is kept
DictSet_setdefault(d, key, value) ==
    [k \in (DOMAIN d) \cup {key} |-> IF k \in DOMAIN d THEN d[k] ELSE value]

\* d[key] = value
DictSet(d, key, value) == [k \in (DOMAIN d) \cup {key} |-> IF k = key THEN value ELSE d[k]]

(***************************************************************************)
(* The four canonical checks.  Each one is the message of the exception it *)
(* raises, or NONE when it passes.                                         *)
(***************************************************************************)
UNAUTHORIZED == "Unauthorized hardware identity"

UNAPPROVED == "Firmware not approved by governance"

REPLAY == "Replay attack detected"

MISMATCH == "Receipt digest mismatch!"

VALID == "VALID: Receipt authorized for Arbitrum anchoring"

\* a check of the identity's width in place of the allowlist lookup
_check_identity_width_only(nodes, receipt) ==
    IF Len(receipt.hardware_identity) # HASH_LEN THEN UNAUTHORIZED ELSE NONE

_check_identity(nodes, receipt) ==
    IF receipt.hardware_identity \notin DOMAIN nodes THEN UNAUTHORIZED ELSE NONE

_check_firmware(firmware, receipt) ==
    IF receipt.firmware_hash \notin firmware THEN UNAPPROVED ELSE NONE

\* a counter equal to the last one passes
_check_monotonicity_lt(db, receipt) ==
    IF receipt.counter < last_counter(db, receipt.hardware_identity) THEN REPLAY ELSE NONE

\* only the direct successor of the last counter passes
_check_monotonicity_successor_only(db, receipt) ==
    IF receipt.counter # last_counter(db, receipt.hardware_identity) + 1
    THEN REPLAY ELSE NONE

\* a counter that must exceed the last one by more than one
_check_monotonicity_off_by_one(db, receipt) ==
    IF receipt.counter <= last_counter(db, receipt.hardware_identity) + 1 THEN REPLAY ELSE NONE

_check_monotonicity(db, receipt) ==
    IF receipt.counter <= last_counter(db, receipt.hardware_identity) THEN REPLAY ELSE NONE

\* a comparison that stops before the last byte
_check_digest_prefix(receipt) ==
    IF SubSeq(DigestTable[receipt], 1, HASH_LEN - 1)
           # SubSeq(receipt.receipt_digest, 1, HASH_LEN - 1)
    THEN MISMATCH ELSE NONE

_check_digest(receipt) ==
    IF DigestTable[receipt] # receipt.receipt_digest THEN MISMATCH ELSE NONE

CheckNames == <<"identity", "firmware", "monotonicity", "digest">>

\* every check runs, the first exception is reported at the end
Then_no_fail_fast(sofar, name, exc) ==
    [exc |-> IF sofar.exc # NONE THEN sofar.exc ELSE exc, checks |-> Append(sofar.checks, name)]

\* fail-fast sequencing: the check named name, with outcome exc, runs only if no
\* earlier check has raised
Then(sofar, name, exc) ==
    IF sofar.exc # NONE THEN sofar
    ELSE [exc |-> exc, checks |-> Append(sofar.checks, name)]

\* the digest check placed first
FourChecks_digest_first(nodes, firmware, db, receipt) ==
    Then(Then(Then(Then([exc |-> NONE, checks |-> <<>>],
                        "digest", _check_digest(receipt)),
                   "identity", _check_identity(nodes, receipt)),
              "firmware", _check_firmware(firmware, receipt)),
         "monotonicity", _check_monotonicity(db, receipt))

\* the monotonicity check placed before the firmware check
FourChecks_replay_first(nodes, firmware, db, receipt) ==
    Then(Then(Then(Then([exc |-> NONE, checks |-> <<>>],
                        "identity", _check_identity(nodes, receipt)),
                   "monotonicity", _check_monotonicity(db, receipt)),
              "firmware", _check_firmware(firmware, receipt)),
         "digest", _check_digest(receipt))

\* self._check_identity(receipt); self._check_firmware(receipt);
\* self._check_monotonicity(receipt); self._check_digest(receipt)
FourChecks(nodes, firmware, db, receipt) ==
    Then(Then(Then(Then([exc |-> NONE, checks |-> <<>>],
                        "identity", _check_identity(nodes, receipt)),
                   "firmware", _check_firmware(firmware, receipt)),
              "monotonicity", _check_monotonicity(db, receipt)),
         "digest", _check_digest(receipt))

\* the return value (False, "REJECTED: " + str(e)) of the except branch; the store is left as it is
\* the class of a raised exception: the TypeError and AttributeError of the
\* interpreter, or the plain Exception the verifier raises with a message
ClassOf(exc) == IF exc \in {"TypeError", "AttributeError"} THEN exc ELSE "Exception"

\* a handler for the verifier's own exceptions only
Caught_own_only(exc) == ClassOf(exc) = "Exception"

\* except Exception: Exception and every subclass of it
Caught(exc) == ClassOf(exc) \in {"Exception", "TypeError", "AttributeError"}

\* a handler that reports every rejection with one generic message
Rejected_generic(db, msg, checks) ==
    [success |-> FALSE, msg |-> "Verification failed", raised |-> NONE,
     counter_db |-> db, checks |-> checks]

\* the handler returns (False, message); an exception it does not catch reaches the caller
Rejected(db, msg, checks) ==
    [success |-> FALSE, msg |-> IF Caught(msg) THEN msg ELSE NONE,
     raised |-> IF Caught(msg) THEN NONE ELSE ClassOf(msg),
     counter_db |-> db, checks |-> checks]

\* the counter incremented instead of set to the receipt's
Conclude_increment(db, receipt, outcome) ==
    IF outcome.exc # NONE THEN Rejected(db, outcome.exc, outcome.checks)
    ELSE [success |-> TRUE, msg |-> VALID, raised |-> NONE,
          counter_db |-> DictSet(db, receipt.hardware_identity,
                                 last_counter(db, receipt.hardware_identity) + 1),
          checks |-> outcome.checks]

\* an acceptance that does not record the counter
Conclude_no_write(db, receipt, outcome) ==
    IF outcome.exc # NONE THEN Rejected(db, outcome.exc, outcome.checks)
    ELSE [success |-> TRUE, msg |-> VALID, raised |-> NONE, counter_db |-> db,
          checks |-> outcome.checks]

\* the counter recorded before the checks are looked at
Conclude_write_first(db, receipt, outcome) ==
    IF outcome.exc # NONE
    THEN Rejected(DictSet(db, receipt.hardware_identity, receipt.counter),
                  outcome.exc, outcome.checks)
    ELSE [success |-> TRUE, msg |-> VALID, raised |-> NONE,
          counter_db |-> DictSet(db, receipt.hardware_identity, receipt.counter),
          checks |-> outcome.checks]

\* after the checks: the counter is recorded and (True, msg) returned, or the
\* exception of the failing check is caught
Conclude(db, receipt, outcome) ==
    IF outcome.exc # NONE THEN Rejected(db, outcome.exc, outcome.checks)
    ELSE [success |-> TRUE, msg |-> VALID, raised |-> NONE,
          counter_db |-> DictSet(db, receipt.hardware_identity, receipt.counter),
          checks |-> outcome.checks]

VerifyParsed(nodes, firmware, db, parsed) ==
    IF parsed.exc # NONE THEN Rejected(db, parsed.exc, <<>>)
    ELSE Conclude(db, parsed.receipt, FourChecks(nodes, firmware, db, parsed.receipt))

\* verify_attestation on a verifier whose fields are nodes, firmware and db:
\* the returned pair, counter_db after the call, and the checks that were run
verify_attestation(nodes, firmware, db, json_blob) ==
    VerifyParsed(nodes, firmware, db, ParseTable[json_blob])

(***************************************************************************)
(* The packed batch form (scripts/benchmark_receipts.py): records of       *)
(* PACKED_V1_LEN bytes, concatenated                                       *)
(***************************************************************************)
PACKED_V1_LEN == 137

\* b"\x01", the version byte of a packed record
VERSION_V1 == 1

\* _u64be: the counter as 8 big-endian bytes, ValueError outside uint64
_u64be(x) ==
    IF x < 0 \/ x > U64_MAX THEN Raise("ValueError") ELSE Ok(CounterBE(x))

PackedBytes(hw_id, fw_hash, exec_hash, counter_be, claimed_digest) ==
    <<VERSION_V1>> \o hw_id \o fw_hash \o exec_hash \o counter_be \o claimed_digest

\* a record with the firmware hash placed before the hardware identity
pack_v1_firmware_first(chain_id, hw_id, fw_hash, exec_hash, counter, claimed_digest) ==
    LET counter_be == _u64be(counter)
    IN  IF counter_be.exc # NONE THEN counter_be
        ELSE IF Len(PackedBytes(fw_hash, hw_id, exec_hash, counter_be.v, claimed_digest))
                    # PACKED_V1_LEN
        THEN Raise("RuntimeError")
        ELSE Ok(PackedBytes(fw_hash, hw_id, exec_hash, counter_be.v, claimed_digest))

\* pack_v1: only the length of the whole record is checked
pack_v1(chain_id, hw_id, fw_hash, exec_hash, counter, claimed_digest) ==
    LET counter_be == _u64be(counter)
    IN  IF counter_be.exc # NONE THEN counter_be
        ELSE IF Len(PackedBytes(hw_id, fw_hash, exec_hash, counter_be.v, claimed_digest))
                    # PACKED_V1_LEN
        THEN Raise("RuntimeError")
        ELSE Ok(PackedBytes(hw_id, fw_hash, exec_hash, counter_be.v, claimed_digest))

\* b"exec:"
EXEC_PREFIX == <<101, 120, 101, 99, 58>>

\* exec_hash_for
exec_hash_for(counter) ==
    LET counter_be == _u64be(counter)
    IN  IF counter_be.exc # NONE THEN counter_be ELSE Ok(keccak(EXEC_PREFIX \o counter_be.v))

\* the body of make_packed_batch's loop: the record of one counter
PackedRecord(chain_id, hw_id, fw_hash, counter) ==
    LET ex == exec_hash_for(counter)
    IN  IF ex.exc # NONE THEN ex
        ELSE pack_v1(chain_id, hw_id, fw_hash, ex.v, counter,
                     compute_digest(chain_id, hw_id, fw_hash, ex.v, counter))

\* for i in range(n), from i on, out being the records packed so far
RECURSIVE PackLoop(_, _, _, _, _, _, _)
PackLoop(out, i, chain_id, hw_id, fw_hash, start_counter, n) ==
    IF i >= n THEN Ok(out)
    ELSE LET record == PackedRecord(chain_id, hw_id, fw_hash, start_counter + i)
         IN  IF record.exc # NONE THEN record
             ELSE PackLoop(out \o record.v, i + 1, chain_id, hw_id, fw_hash, start_counter, n)

\* make_packed_batch
make_packed_batch(chain_id, hw_id, fw_hash, start_counter, n) ==
    PackLoop(<<>>, 0, chain_id, hw_id, fw_hash, start_counter, n)

\* make_single_args: the execution hash and the digest of one counter, and the
\* digest with its last bit flipped
make_single_args(chain_id, hw_id, fw_hash, counter) ==
    LET ex == exec_hash_for(counter)
    IN  IF ex.exc # NONE THEN ex
        ELSE LET d == compute_digest(chain_id, hw_id, fw_hash, ex.v, counter)
             IN  Ok([exec_hash |-> ex.v, claimed_digest |-> d,
                     claimed_digest_bad |-> FlipLastBit(d)])

\* run_gas_benchmarks.main, from the reading of the on-chain counter on: the
\* arguments of the two verifyReceipt transactions, the counter being "1" in both
SingleTransactions(chain_id, hw_id, fw_hash, current_counter) ==
    LET single == make_single_args(chain_id, hw_id, fw_hash, current_counter)
    IN  IF single.exc # NONE THEN single
        ELSE Ok([success |-> [hw_id |-> hw_id, fw_hash |-> fw_hash,
                              exec_hash |-> single.v.exec_hash, counter |-> 1,
                              claimed_digest |-> single.v.claimed_digest],
                 invalid_digest |-> [hw_id |-> hw_id, fw_hash |-> fw_hash,
                                     exec_hash |-> single.v.exec_hash, counter |-> 1,
                                     claimed_digest |-> single.v.claimed_digest_bad]])

(***************************************************************************)
(* Decoding of the packed form, as the specification of the codec gives    *)
(* it: the buffer is a whole number of records, each with a recognized     *)
(* version byte, cut at the fixed offsets of version 1                     *)
(***************************************************************************)
\* int.from_bytes(bytes, "big")
RECURSIVE FromBE(_)
FromBE(bytes) ==
    IF bytes = <<>> THEN 0
    ELSE FromBE(SubSeq(bytes, 1, Len(bytes) - 1)) * 256 + bytes[Len(bytes)]

RecordCount(buffer) == Len(buffer) \div PACKED_V1_LEN

RecordAt(buffer, i) == SubSeq(buffer, (i - 1) * PACKED_V1_LEN + 1, i * PACKED_V1_LEN)

StructurallyValid(buffer) ==
    /\ Len(buffer) % PACKED_V1_LEN = 0
    /\ \A i \in 1..RecordCount(buffer) : RecordAt(buffer, i)[1] = VERSION_V1

DecodeRecord(record) ==
    Receipt(SubSeq(record, 2, 1 + HASH_LEN),
            SubSeq(record, 2 + HASH_LEN, 1 + 2 * HASH_LEN),
            SubSeq(record, 2 + 2 * HASH_LEN, 1 + 3 * HASH_LEN),
            FromBE(SubSeq(record, 2 + 3 * HASH_LEN, 1 + 3 * HASH_LEN + COUNTER_LEN)),
            SubSeq(record, 2 + 3 * HASH_LEN + COUNTER_LEN, 1 + 4 * HASH_LEN + COUNTER_LEN))

unpack_batch(buffer) ==
    IF ~StructurallyValid(buffer) THEN Raise("MalformedReceipt")
    ELSE Ok([i \in 1..RecordCount(buffer) |-> DecodeRecord(RecordAt(buffer, i))])

(***************************************************************************)
(* The batch processor, as the specification gives it: a buffer that is    *)
(* not structurally valid is rejected whole; otherwise the verifier runs   *)
(* on each record in order against the live store, and the outcome of each *)
(* is listed                                                               *)
(***************************************************************************)
\* the records from the i-th on, verified against db
RECURSIVE RunRecords(_, _, _, _, _)
RunRecords(nodes, firmware, db, records, i) ==
    IF i > Len(records) THEN [counter_db |-> db, outcomes |-> <<>>]
    ELSE LET out == VerifyParsed(nodes, firmware, db, [exc |-> NONE, receipt |-> records[i]])
             rest == RunRecords(nodes, firmware, out.counter_db, records, i + 1)
         IN  [counter_db |-> rest.counter_db,
              outcomes |-> <<[success |-> out.success, msg |-> out.msg]>> \o rest.outcomes]

\* a processor that verifies the records in front of a structurally invalid one
process_batch_valid_prefix(nodes, firmware, db, buffer) ==
    LET whole == SubSeq(buffer, 1, RecordCount(buffer) * PACKED_V1_LEN)
        bad == {i \in 1..RecordCount(buffer) : RecordAt(buffer, i)[1] # VERSION_V1}
        good == IF bad = {} THEN whole
                ELSE SubSeq(whole, 1, ((CHOOSE i \in bad : \A k \in bad : i <= k) - 1)
                                           * PACKED_V1_LEN)
        run == RunRecords(nodes, firmware, db, unpack_batch(good).v, 1)
    IN  [success |-> StructurallyValid(buffer),
         raised |-> IF StructurallyValid(buffer) THEN NONE ELSE "MalformedReceipt",
         counter_db |-> run.counter_db,
         outcomes |-> IF StructurallyValid(buffer) THEN run.outcomes ELSE <<>>]

process_batch(nodes, firmware, db, buffer) ==
    LET decoded == unpack_batch(buffer)
    IN  IF decoded.exc # NONE
        THEN [success |-> FALSE, raised |-> decoded.exc, counter_db |-> db,
              outcomes |-> <<>>]
        ELSE LET run == RunRecords(nodes, firmware, db, decoded.v, 1)
             IN  [success |-> TRUE, raised |-> NONE, counter_db |-> run.counter_db,
                  outcomes |-> run.outcomes]

(***************************************************************************)
(* Registry management and persistence helpers                             *)
(***************************************************************************)
\* the hex strings and labels the administrative operations are called with
AdminHexes ==
    {Prefix0x(ALPHA_HEX), Prefix0x(FF_HEX), Prefix0x(FW_HEX), Prefix0x(ZERO_HEX),
     Prefix0x(SubSeq(FF_HEX, 1, 62)), Prefix0x(Rep(64, "z"))}

NodeHexes == {Prefix0x(ALPHA_HEX), Prefix0x(FF_HEX), Prefix0x(SubSeq(FF_HEX, 1, 62)),
              Prefix0x(Rep(64, "z"))}

FirmwareHexes == {Prefix0x(FW_HEX), Prefix0x(ZERO_HEX), Prefix0x(Rep(64, "z"))}

\* the label the module's example registers the default node under again
NodeNames == {"Development_ESP32_S3_Alpha"}

\* bytes.fromhex(hex.replace("0x", "")): the bytes, or the ValueError it raises
AdminBytes(hex) == IF FromHexOk(hex) THEN Ok(FromHex(hex)) ELSE Raise("ValueError")

AdminBytesTable == [h \in AdminHexes |-> AdminBytes(Remove0x(h))]

\* the state written by save_counter_state: {hw_id.hex(): counter}
SavedState(db) == [h \in {ToHex(k) : k \in DOMAIN db} |-> db[FromHex(h)]]

\* the keys of the file restored without their counters
LoadedState_keys_only(state) == [k \in {FromHex(h) : h \in DOMAIN state} |-> 0]

\* the mapping load_counter_state builds: {bytes.fromhex(hw_id): counter}
LoadedState(state) == [k \in {FromHex(h) : h \in DOMAIN state} |-> state[ToHex(k)]]

(***************************************************************************)
(* State.  The three fields of NexusVerifier, the file save_counter_state  *)
(* writes, and what the last call was, returned and ran.                   *)
(***************************************************************************)
VARIABLES
    authorized_nodes,    \* Dict[bytes, str]
    counter_db,          \* Dict[bytes, int]
    approved_firmware,   \* Set[bytes]
    counter_file,        \* nexus_counter_state.json: whether it exists, and its content
    call,                \* the last call: the operation and its arguments
    ret,                 \* what the last call returned: (success, message)
    checks_run,          \* the checks the last verify_attestation call entered, in order
    pre,                 \* the verifier's fields and the log as the last call found them
    accepted,            \* the log of the receipts accepted so far: (hardware identity, counter)
    thr                  \* the concurrent callers of SpecConc

vars == <<authorized_nodes, counter_db, approved_firmware, counter_file, call, ret,
          checks_run, pre, accepted, thr>>

\* what a call leaves alone apart from the verifier's own fields
seq_obs == <<call, ret, checks_run, pre>>

Snapshot ==
    [authorized_nodes |-> authorized_nodes, approved_firmware |-> approved_firmware,
     counter_db |-> counter_db, accepted |-> accepted]

store == <<authorized_nodes, counter_db, approved_firmware>>

Threads == 1..NThreads

IdleThread == [pc |-> "idle", json_blob |-> JGarbage, receipt |-> NoReceipt,
               success |-> FALSE, msg |-> NONE]

\* NexusVerifier.__init__
Init ==
    /\ authorized_nodes = [k \in {HW_ALPHA} |-> "Alpha_Node_S3"]
    /\ counter_db = <<>>
    /\ approved_firmware = {FW_DEFAULT}
    /\ counter_file = [exists |-> FALSE, state |-> <<>>]
    /\ call = [op |-> "__init__"]
    /\ ret = [success |-> TRUE, msg |-> NONE, raised |-> NONE]
    /\ checks_run = <<>>
    /\ pre = [authorized_nodes |-> <<>>, approved_firmware |-> {}, counter_db |-> <<>>,
              accepted |-> {}]
    /\ accepted = {}
    /\ thr = [t \in Threads |-> IdleThread]

\* a verification path that drops the sender of a rejected receipt from the allowlist
Verified_evicts_sender(json_blob, receipt, out) ==
    /\ counter_db' = out.counter_db
    /\ call' = [op |-> "verify_attestation", json_blob |-> json_blob]
    /\ ret' = [success |-> out.success, msg |-> out.msg, raised |-> out.raised]
    /\ checks_run' = out.checks
    /\ pre' = Snapshot
    /\ accepted' = IF out.success
                   THEN accepted \cup {<<receipt.hardware_identity, receipt.counter>>}
                   ELSE accepted
    /\ authorized_nodes' = IF out.success THEN authorized_nodes
                           ELSE [k \in (DOMAIN authorized_nodes) \ {receipt.hardware_identity}
                                    |-> authorized_nodes[k]]
    /\ UNCHANGED <<approved_firmware, counter_file, thr>>

\* a call of verify_attestation that came out as out
Verified(json_blob, receipt, out) ==
    /\ counter_db' = out.counter_db
    /\ call' = [op |-> "verify_attestation", json_blob |-> json_blob]
    /\ ret' = [success |-> out.success, msg |-> out.msg, raised |-> out.raised]
    /\ checks_run' = out.checks
    /\ pre' = Snapshot
    /\ accepted' = IF out.success
                   THEN accepted \cup {<<receipt.hardware_identity, receipt.counter>>}
                   ELSE accepted
    /\ UNCHANGED <<authorized_nodes, approved_firmware, counter_file, thr>>

\* one whole call of verify_attestation
VerifyAttestation(json_blob) ==
    Verified(json_blob, ParseTable[json_blob].receipt,
             verify_attestation(authorized_nodes, approved_firmware, counter_db, json_blob))

\* a registration that starts the node's replay counter afresh
Registered_resets_counter(hardware_identity_hex, node_name, hw_id) ==
    /\ authorized_nodes' = IF hw_id.exc = NONE
                           THEN DictSet(authorized_nodes, hw_id.v, node_name)
                           ELSE authorized_nodes
    /\ counter_db' = IF hw_id.exc = NONE
                     THEN [k \in (DOMAIN counter_db) \ {hw_id.v} |-> counter_db[k]]
                     ELSE counter_db
    /\ call' = [op |-> "add_authorized_node", hex |-> hardware_identity_hex,
                name |-> node_name]
    /\ ret' = [success |-> hw_id.exc = NONE, msg |-> NONE, raised |-> hw_id.exc]
    /\ checks_run' = <<>>
    /\ pre' = Snapshot
    /\ UNCHANGED <<approved_firmware, counter_file, accepted, thr>>

Registered(hardware_identity_hex, node_name, hw_id) ==
    /\ authorized_nodes' = IF hw_id.exc = NONE
                           THEN DictSet(authorized_nodes, hw_id.v, node_name)
                           ELSE authorized_nodes
    /\ call' = [op |-> "add_authorized_node", hex |-> hardware_identity_hex,
                name |-> node_name]
    /\ ret' = [success |-> hw_id.exc = NONE, msg |-> NONE, raised |-> hw_id.exc]
    /\ checks_run' = <<>>
    /\ pre' = Snapshot
    /\ UNCHANGED <<counter_db, approved_firmware, counter_file, accepted, thr>>

\* add_authorized_node: bytes.fromhex may raise, and then nothing is registered
AddAuthorizedNode(hardware_identity_hex, node_name) ==
    Registered(hardware_identity_hex, node_name, AdminBytesTable[hardware_identity_hex])

Approved(firmware_hash_hex, fw_hash) ==
    /\ approved_firmware' = IF fw_hash.exc = NONE
                            THEN approved_firmware \cup {fw_hash.v}
                            ELSE approved_firmware
    /\ call' = [op |-> "add_approved_firmware", hex |-> firmware_hash_hex]
    /\ ret' = [success |-> fw_hash.exc = NONE, msg |-> NONE, raised |-> fw_hash.exc]
    /\ checks_run' = <<>>
    /\ pre' = Snapshot
    /\ UNCHANGED <<authorized_nodes, counter_db, counter_file, accepted, thr>>

\* add_approved_firmware
AddApprovedFirmware(firmware_hash_hex) ==
    Approved(firmware_hash_hex, AdminBytesTable[firmware_hash_hex])

\* save_counter_state("json")
SaveCounterState ==
    /\ counter_file' = [exists |-> TRUE, state |-> SavedState(counter_db)]
    /\ call' = [op |-> "save_counter_state"]
    /\ ret' = [success |-> TRUE, msg |-> NONE, raised |-> NONE]
    /\ checks_run' = <<>>
    /\ pre' = Snapshot
    /\ UNCHANGED <<authorized_nodes, counter_db, approved_firmware, accepted, thr>>

\* load_counter_state("json"): counter_db is replaced when the file exists
LoadCounterState ==
    /\ counter_db' = IF counter_file.exists THEN LoadedState(counter_file.state)
                     ELSE counter_db
    /\ call' = [op |-> "load_counter_state"]
    /\ ret' = [success |-> TRUE, msg |-> NONE, raised |-> NONE]
    /\ checks_run' = <<>>
    /\ pre' = Snapshot
    /\ UNCHANGED <<authorized_nodes, approved_firmware, counter_file, accepted, thr>>

\* the calls of the registry management API
Admin ==
    \/ \E h \in {Prefix0x(ALPHA_HEX), Prefix0x(FF_HEX), Prefix0x(Rep(64, "z"))}, n \in NodeNames :
          AddAuthorizedNode(h, n)
    \/ \E h \in FirmwareHexes : AddApprovedFirmware(h)

\* The verifier and its registry: any receipt, any administrative call, in any order
Next ==
    \/ \E j \in JsonBlobs : VerifyAttestation(j)
    \/ Admin

Spec == Init /\ [][Next]_vars

(***************************************************************************)
(* The verifier with its persistence helpers: receipts with a computed     *)
(* digest, saving and loading of the counter state.                        *)
(***************************************************************************)
StoreBlobs ==
    {TestReceipts[hw, "default", c, "computed"] : hw \in HwHexes, c \in 0..MaxCounter}

NextStore ==
    \/ \E j \in StoreBlobs : VerifyAttestation(j)
    \/ AddAuthorizedNode(Prefix0x(FF_HEX), "Development_ESP32_S3_Alpha")
    \/ SaveCounterState
    \/ LoadCounterState

SpecStore == Init /\ [][NextStore]_vars

(***************************************************************************)
(* The management API with arguments of any width, and the status query    *)
(***************************************************************************)
\* the dictionary get_node_status returns
get_node_status(nodes, db, hw_id) ==
    [authorized |-> hw_id \in DOMAIN nodes,
     node_name |-> IF hw_id \in DOMAIN nodes THEN nodes[hw_id] ELSE "Unknown",
     last_counter |-> last_counter(db, hw_id)]

\* get_node_status: bytes.fromhex may raise; the verifier's fields are only read
GetNodeStatus(hardware_identity_hex) ==
    /\ call' = [op |-> "get_node_status", hex |-> hardware_identity_hex]
    /\ ret' = LET hw_id == AdminBytesTable[hardware_identity_hex]
              IN  [success |-> hw_id.exc = NONE, msg |-> NONE, raised |-> hw_id.exc,
                   value |-> IF hw_id.exc # NONE THEN <<>>
                             ELSE get_node_status(authorized_nodes, counter_db, hw_id.v)]
    /\ checks_run' = <<>>
    /\ pre' = Snapshot
    /\ UNCHANGED <<authorized_nodes, counter_db, approved_firmware, counter_file,
                   accepted, thr>>

NextAdmin ==
    \/ \E j \in StoreBlobs : VerifyAttestation(j)
    \/ \E h \in NodeHexes, n \in NodeNames : AddAuthorizedNode(h, n)
    \/ \E h \in FirmwareHexes \cup {Prefix0x(SubSeq(FF_HEX, 1, 62))} : AddApprovedFirmware(h)
    \/ \E h \in NodeHexes : GetNodeStatus(h)

SpecAdmin == Init /\ [][NextAdmin]_vars

(***************************************************************************)
(* The verifier across restarts of its process: a new NexusVerifier is     *)
(* created and its counters are restored with load_counter_state.  The     *)
(* file survives the restart; the fields of the old object do not.         *)
(***************************************************************************)
\* verifier = NexusVerifier(); verifier.load_counter_state()
Restart ==
    /\ authorized_nodes' = [k \in {HW_ALPHA} |-> "Alpha_Node_S3"]
    /\ approved_firmware' = {FW_DEFAULT}
    /\ counter_db' = IF counter_file.exists THEN LoadedState(counter_file.state) ELSE <<>>
    /\ call' = [op |-> "restart"]
    /\ ret' = [success |-> TRUE, msg |-> NONE, raised |-> NONE]
    /\ checks_run' = <<>>
    /\ pre' = Snapshot
    /\ UNCHANGED <<counter_file, accepted, thr>>

NextRestart ==
    \/ NextStore
    \/ Restart

SpecRestart == Init /\ [][NextRestart]_vars

(***************************************************************************)
(* Concurrent callers of verify_attestation on one verifier.  Nothing in   *)
(* the class takes a lock: each access to a field of the verifier is one   *)
(* step, and the steps of different callers interleave.  Each caller makes *)
(* one call.                                                               *)
(***************************************************************************)
Goto(t, pc) == [thr EXCEPT ![t].pc = pc]

Return(t, success, msg) ==
    [thr EXCEPT ![t].pc = "done", ![t].success = success, ![t].msg = msg]

\* a check that raises ends the call in the except branch
Checked(t, exc, next_pc) ==
    /\ thr' = IF exc # NONE THEN Return(t, FALSE, exc) ELSE Goto(t, next_pc)
    /\ UNCHANGED <<store, counter_file, seq_obs, accepted>>

Entered(t, json_blob, parsed) ==
    /\ thr[t].pc = "idle"
    /\ thr' = IF parsed.exc # NONE
              THEN [thr EXCEPT ![t].pc = "done", ![t].json_blob = json_blob,
                               ![t].success = FALSE, ![t].msg = parsed.exc]
              ELSE [thr EXCEPT ![t].pc = "identity", ![t].json_blob = json_blob,
                               ![t].receipt = parsed.receipt]
    /\ UNCHANGED <<store, counter_file, seq_obs, accepted>>

\* receipt = self._parse_receipt(json_blob)
Enter(t, json_blob) == Entered(t, json_blob, ParseTable[json_blob])

\* self._check_identity(receipt): the read of authorized_nodes
StepIdentity(t) ==
    /\ thr[t].pc = "identity"
    /\ Checked(t, _check_identity(authorized_nodes, thr[t].receipt), "firmware")

\* self._check_firmware(receipt): the read of approved_firmware
StepFirmware(t) ==
    /\ thr[t].pc = "firmware"
    /\ Checked(t, _check_firmware(approved_firmware, thr[t].receipt), "monotonicity")

\* self._check_monotonicity(receipt): the read of counter_db
StepMonotonicity(t) ==
    /\ thr[t].pc = "monotonicity"
    /\ Checked(t, _check_monotonicity(counter_db, thr[t].receipt), "digest")

\* self._check_digest(receipt)
StepDigest(t) ==
    /\ thr[t].pc = "digest"
    /\ Checked(t, _check_digest(thr[t].receipt), "record")

\* self.counter_db[receipt.hardware_identity] = receipt.counter; return True, msg
StepRecord(t) ==
    /\ thr[t].pc = "record"
    /\ counter_db' = DictSet(counter_db, thr[t].receipt.hardware_identity, thr[t].receipt.counter)
    /\ thr' = Return(t, TRUE, VALID)
    /\ accepted' = accepted \cup {<<thr[t].receipt.hardware_identity, thr[t].receipt.counter>>}
    /\ UNCHANGED <<authorized_nodes, approved_firmware, counter_file, seq_obs>>

NextConc ==
    \E t \in Threads :
        \/ \E j \in ConcBlobs : Enter(t, j)
        \/ StepIdentity(t)
        \/ StepFirmware(t)
        \/ StepMonotonicity(t)
        \/ StepDigest(t)
        \/ StepRecord(t)

SpecConc == Init /\ [][NextConc]_vars

(***************************************************************************)
(* The packing helpers applied to bounded inputs: byte strings of the      *)
(* declared width, one byte short and one byte long                        *)
(***************************************************************************)
Widths(bytes) == {bytes, SubSeq(bytes, 1, Len(bytes) - 1), bytes \o <<0>>}

\* what a packing helper returned, or the exception it raised
Returned(result) ==
    [success |-> result.exc = NONE, msg |-> NONE, raised |-> result.exc, value |-> result.v]

\* one call of pack_v1
PackV1(hw_id, fw_hash, exec_hash, counter, claimed_digest) ==
    /\ call' = [op |-> "pack_v1", hw_id |-> hw_id, fw_hash |-> fw_hash,
                exec_hash |-> exec_hash, counter |-> counter,
                claimed_digest |-> claimed_digest]
    /\ ret' = Returned(pack_v1(CHAIN_ID_DEFAULT, hw_id, fw_hash, exec_hash, counter,
                               claimed_digest))
    /\ checks_run' = <<>>
    /\ pre' = Snapshot
    /\ UNCHANGED <<authorized_nodes, counter_db, approved_firmware, counter_file,
                   accepted, thr>>

\* the largest number of records of a batch
MaxBatch == 3

\* one call of make_packed_batch
MakePackedBatch(hw_id, fw_hash, start_counter, n) ==
    /\ call' = [op |-> "make_packed_batch", hw_id |-> hw_id, fw_hash |-> fw_hash,
                start_counter |-> start_counter, n |-> n]
    /\ ret' = Returned(make_packed_batch(CHAIN_ID_DEFAULT, hw_id, fw_hash, start_counter, n))
    /\ checks_run' = <<>>
    /\ pre' = Snapshot
    /\ UNCHANGED <<authorized_nodes, counter_db, approved_firmware, counter_file,
                   accepted, thr>>

\* the buffer a packing helper has just returned is decoded
UnpackBatch ==
    /\ call.op = "make_packed_batch"
    /\ ret.success
    /\ call' = [op |-> "unpack_batch", buffer |-> ret.value, packed_by |-> call]
    /\ ret' = Returned(unpack_batch(ret.value))
    /\ checks_run' = <<>>
    /\ pre' = Snapshot
    /\ UNCHANGED <<authorized_nodes, counter_db, approved_firmware, counter_file,
                   accepted, thr>>

\* the benchmark driver reads current_counter from the contract and builds its
\* two single-receipt transactions
SendSingle(hw_id, fw_hash, current_counter) ==
    /\ call' = [op |-> "single_transactions", hw_id |-> hw_id, fw_hash |-> fw_hash,
                current_counter |-> current_counter]
    /\ ret' = Returned(SingleTransactions(CHAIN_ID_DEFAULT, hw_id, fw_hash, current_counter))
    /\ checks_run' = <<>>
    /\ pre' = Snapshot
    /\ UNCHANGED <<authorized_nodes, counter_db, approved_firmware, counter_file,
                   accepted, thr>>

NextPack ==
    \/ \E hw_id \in Widths(HW_ALPHA), fw_hash \in Widths(FW_DEFAULT),
          exec_hash \in Widths(FromHex(EXEC_HEX)), counter \in (0 - 1)..(U64_MAX + 1),
          claimed_digest \in Widths(FromHex(FORGED_HEX)) :
          PackV1(hw_id, fw_hash, exec_hash, counter, claimed_digest)
    \/ \E hw_id \in Widths(HW_ALPHA), fw_hash \in Widths(FW_DEFAULT), start_counter \in 0..U64_MAX,
          n \in 0..MaxBatch :
          MakePackedBatch(hw_id, fw_hash, start_counter, n)
    \/ UnpackBatch
    \/ \E hw_id \in {HW_ALPHA, HW_FF}, current_counter \in 0..U64_MAX :
          SendSingle(hw_id, FW_DEFAULT, current_counter)

SpecPack == Init /\ [][NextPack]_vars

(***************************************************************************)
(* Batches submitted to the live store: every sequence of at most MaxBatch *)
(* records packed from the receipts below, and a record that is truncated  *)
(* or of an unknown version with at most one valid record around it        *)
(***************************************************************************)
BatchBlobs ==
    {TestReceipts[ALPHA_HEX, "default", c, "computed"] : c \in {1, MaxCounter}}
        \cup {TestReceipts[FF_HEX, "default", 1, "computed"],
              TestReceipts[ALPHA_HEX, "default", MaxCounter, "forged"]}

PackReceipt(receipt) ==
    pack_v1(CHAIN_ID_DEFAULT, receipt.hardware_identity, receipt.firmware_hash,
            receipt.execution_hash, receipt.counter, receipt.receipt_digest).v

RECURSIVE Concat(_, _)
Concat(records, i) ==
    IF i > Len(records) THEN <<>> ELSE records[i] \o Concat(records, i + 1)

\* the buffers of at most n records
ValidBatches(n) ==
    LET records == {PackReceipt(ParseTable[j].receipt) : j \in BatchBlobs}
    IN  {Concat(batch, 1) : batch \in UNION {[1..k -> records] : k \in 0..n}}

\* a record cut short by a byte, or with a version byte other than 1
MalformedBatches ==
    LET first == PackReceipt(ParseTable[TestReceipts[ALPHA_HEX, "default", 1, "computed"]].receipt)
        truncated == SubSeq(first, 1, Len(first) - 1)
        unknown == [first EXCEPT ![1] = VERSION_V1 + 1]
    IN  {b \o truncated : b \in ValidBatches(1)}
            \cup {b \o unknown : b \in ValidBatches(1)}
            \cup {unknown \o b : b \in ValidBatches(1)}

Processed(buffer, out) ==
    /\ counter_db' = out.counter_db
    /\ call' = [op |-> "process_batch", buffer |-> buffer]
    /\ ret' = [success |-> out.success, msg |-> NONE, raised |-> out.raised,
               value |-> out.outcomes]
    /\ checks_run' = <<>>
    /\ pre' = Snapshot
    /\ accepted' = accepted \cup
           {<<DecodeRecord(RecordAt(buffer, i)).hardware_identity,
              DecodeRecord(RecordAt(buffer, i)).counter>> :
               i \in {k \in 1..Len(out.outcomes) : out.outcomes[k].success}}
    /\ UNCHANGED <<authorized_nodes, approved_firmware, counter_file, thr>>

\* one batch handed to the batch processor
ProcessBatch(buffer) ==
    Processed(buffer, process_batch(authorized_nodes, approved_firmware, counter_db, buffer))

NextBatch ==
    \/ \E buffer \in ValidBatches(MaxBatch) \cup MalformedBatches : ProcessBatch(buffer)
    \/ \E j \in BatchBlobs : VerifyAttestation(j)
    \/ AddAuthorizedNode(Prefix0x(FF_HEX), "Development_ESP32_S3_Alpha")

SpecBatch == Init /\ [][NextBatch]_vars

(***************************************************************************)
(* Properties.  The last call is described by call, ret, checks_run and    *)
(* pre; the receipt it carried is looked up in ParseTable.                 *)
(***************************************************************************)
IsVerify == call.op = "verify_attestation"

\* the last call was verify_attestation on a receipt that parsed
WellFormedCall == IsVerify /\ ParseTable[call.json_blob].exc = NONE

LastReceipt == ParseTable[call.json_blob].receipt

WasAuthorized == LastReceipt.hardware_identity \in DOMAIN pre.authorized_nodes

WasApproved == LastReceipt.firmware_hash \in pre.approved_firmware

LastCounterBefore == last_counter(pre.counter_db, LastReceipt.hardware_identity)

DigestIsCanonical == LastReceipt.receipt_digest = DigestTable[LastReceipt]

LastKey == <<LastReceipt.hardware_identity, LastReceipt.counter>>

RejectedWith(msg) == ~ret.success /\ ret.msg = msg

\* C1: from authorized hardware with approved firmware, a well-formed receipt whose
\* counter is last_counter + 1 and whose digest is the canonical digest of its fields
\* is accepted, and last_counter is the receipt's counter afterwards
C1_NextCounterAccepted ==
    (WellFormedCall /\ WasAuthorized /\ WasApproved
        /\ LastReceipt.counter = LastCounterBefore + 1 /\ DigestIsCanonical)
    => (ret.success
        /\ last_counter(counter_db, LastReceipt.hardware_identity) = LastReceipt.counter)

\* the node authorized by the administrator has its counter 2 accepted after its counter 1
C1_Witness ==
    /\ WellFormedCall /\ WasAuthorized /\ WasApproved /\ DigestIsCanonical
    /\ LastReceipt.hardware_identity = HW_FF
    /\ LastCounterBefore = 1 /\ LastReceipt.counter = 2
    /\ ret.success /\ counter_db[HW_FF] = 2

\* C2 as stated: every receipt whose counter is at most last_counter is rejected with
\* the replay reason
C2_Original ==
    (WellFormedCall /\ LastReceipt.counter <= LastCounterBefore) => RejectedWith(REPLAY)

\* C2, amended: a receipt whose counter is at most last_counter is never accepted; it is
\* rejected with the replay reason when its hardware is authorized and its firmware
\* approved, whatever its digest; a receipt that repeats the hardware identity and
\* counter of a receipt accepted before, an identical one above all, is never
\* accepted, and is rejected as a replay when its firmware is approved
C2_Replay ==
    /\ (WellFormedCall /\ LastReceipt.counter <= LastCounterBefore) => ~ret.success
    /\ (WellFormedCall /\ LastReceipt.counter <= LastCounterBefore
            /\ WasAuthorized /\ WasApproved) => RejectedWith(REPLAY)
    /\ (WellFormedCall /\ LastKey \in pre.accepted)
           => (~ret.success /\ (WasApproved => RejectedWith(REPLAY)))

\* an accepted receipt with a canonical digest is submitted again and rejected as a replay
C2_Witness ==
    /\ WellFormedCall /\ LastKey \in pre.accepted /\ DigestIsCanonical /\ WasApproved
    /\ LastReceipt.counter = LastCounterBefore
    /\ RejectedWith(REPLAY)

\* C3 as stated: any receipt whose digest is not the canonical one is rejected with the
\* digest-mismatch reason
C3_Original ==
    (WellFormedCall /\ ~DigestIsCanonical) => RejectedWith(MISMATCH)

\* C3, amended: a receipt whose digest is not the canonical one is never accepted, and
\* it is rejected with the digest-mismatch reason when it passes the identity, firmware
\* and monotonicity checks
C3_DigestMismatch ==
    /\ (WellFormedCall /\ ~DigestIsCanonical) => ~ret.success
    /\ (WellFormedCall /\ ~DigestIsCanonical /\ WasAuthorized /\ WasApproved
            /\ LastReceipt.counter > LastCounterBefore) => RejectedWith(MISMATCH)

\* the canonical digest with its last bit flipped, on an otherwise acceptable receipt
C3_Witness ==
    /\ WellFormedCall /\ WasAuthorized /\ WasApproved
    /\ LastReceipt.counter > LastCounterBefore
    /\ LastReceipt.receipt_digest = FlipLastBit(ReconstructedDigest(LastReceipt))
    /\ RejectedWith(MISMATCH)

\* C4: a receipt whose hardware identity is no key of authorized_nodes is rejected by
\* the identity check, and no later check, the digest check least of all, is entered
C4_UnauthorizedStopsAtIdentity ==
    (WellFormedCall /\ ~WasAuthorized)
    => (RejectedWith(UNAUTHORIZED) /\ checks_run = <<"identity">>
        /\ \A i \in 1..Len(checks_run) : checks_run[i] # "digest")

\* an unauthorized node submits a receipt that would pass every other check
C4_Witness ==
    /\ WellFormedCall /\ ~WasAuthorized /\ WasApproved /\ DigestIsCanonical
    /\ LastReceipt.counter > LastCounterBefore
    /\ RejectedWith(UNAUTHORIZED)

\* C5: from authorized hardware, a receipt whose firmware hash is not approved is
\* rejected with the unapproved-firmware reason, whatever its counter and digest
C5_UnapprovedFirmware ==
    (WellFormedCall /\ WasAuthorized /\ ~WasApproved) => RejectedWith(UNAPPROVED)

\* unapproved firmware on a receipt that is a replay as well
C5_Witness ==
    /\ WellFormedCall /\ WasAuthorized /\ ~WasApproved
    /\ LastReceipt.counter <= LastCounterBefore
    /\ RejectedWith(UNAPPROVED)

\* C6: verify_attestation writes counter_db only when the four checks have all been
\* run and passed for the receipt of that call, and what it writes is that receipt's
\* counter under that receipt's hardware identity
C6_WriteOnlyAfterChecks ==
    (IsVerify /\ counter_db # pre.counter_db)
    => /\ ret.success /\ checks_run = CheckNames
       /\ WellFormedCall /\ WasAuthorized /\ WasApproved /\ DigestIsCanonical
       /\ LastReceipt.counter > LastCounterBefore
       /\ counter_db = DictSet(pre.counter_db, LastReceipt.hardware_identity,
                               LastReceipt.counter)

\* a write that skips a counter value: 2 recorded over 0
C6_Witness ==
    /\ IsVerify /\ counter_db # pre.counter_db
    /\ LastCounterBefore = 0 /\ counter_db[LastReceipt.hardware_identity] = 2

C8_NeverDecreases ==
    [][\A hw \in DOMAIN counter_db : last_counter(counter_db', hw) >= counter_db[hw]]_vars

Done(t) == thr[t].pc = "done"

\* C9: two concurrent callers are never both told Accept for the same hardware
\* identity and counter
C9_NoDoubleAccept ==
    \A t1, t2 \in Threads :
        (t1 # t2 /\ Done(t1) /\ Done(t2) /\ thr[t1].success /\ thr[t2].success)
        => <<thr[t1].receipt.hardware_identity, thr[t1].receipt.counter>>
               # <<thr[t2].receipt.hardware_identity, thr[t2].receipt.counter>>

\* the counters accepted for the default node
AcceptedCounters == {a[2] : a \in {k \in accepted : k[1] = HW_ALPHA}}

\* C10: the callers submit the counters 1 .. M for the default node, whose last
\* counter is 0; once all have returned, last_counter is the largest accepted counter
C10_FinalIsMax ==
    (/\ \A t \in Threads : Done(t) /\ thr[t].receipt.hardware_identity = HW_ALPHA
     /\ {thr[t].receipt.counter : t \in Threads} = 1..NThreads
     /\ AcceptedCounters # {})
    => /\ last_counter(counter_db, HW_ALPHA) \in AcceptedCounters
       /\ \A c \in AcceptedCounters : last_counter(counter_db, HW_ALPHA) >= c

\* every caller has returned, and the callers submitted the counters 1 .. M, one each,
\* for the default node
ConsecutiveRunReturned ==
    /\ \A t \in Threads : Done(t) /\ thr[t].receipt.hardware_identity = HW_ALPHA
    /\ {thr[t].receipt.counter : t \in Threads} = 1..NThreads

\* C11: the callers submit the counters 1 .. M for the default node, whose last
\* counter is 0; once all have returned, no rejected counter lies strictly between
\* two accepted counters
C11_ContiguousRun ==
    ConsecutiveRunReturned
    => \A a, b \in AcceptedCounters : \A x \in 1..NThreads :
           (a < x /\ x < b) => x \in AcceptedCounters

\* C12: a receipt of authorized hardware with approved firmware and a placeholder
\* digest has been submitted; the receipt submitted next, for the same hardware
\* identity with the same counter and the canonical digest, is rejected
C12_SameCounterAfterSubmission ==
    [][(/\ WellFormedCall /\ WasAuthorized /\ WasApproved /\ ~DigestIsCanonical
        /\ WellFormedCall' /\ LastKey' = LastKey /\ DigestIsCanonical')
       => ~ret'.success]_vars

\* C13: after a restart (a new NexusVerifier whose counters are restored with
\* load_counter_state), a receipt that was accepted before the restart is rejected
\* as a replay
C13_ReplayRejectedAfterRestart ==
    [][(call.op = "restart" /\ WellFormedCall' /\ LastKey' \in accepted)
       => (~ret'.success /\ ret'.msg = REPLAY)]_vars

\* the counters a verifier would restore from the file as it is now
DurableCounters == IF counter_file.exists THEN LoadedState(counter_file.state) ELSE <<>>

\* C14: verify_attestation returns Accept only if the receipt's counter has been
\* committed to the durable counter state
C14_AcceptOnlyIfCommitted ==
    (IsVerify /\ ret.success)
    => last_counter(DurableCounters, LastReceipt.hardware_identity) = LastReceipt.counter

\* the messages of a rejection
Reasons == {UNAUTHORIZED, UNAPPROVED, REPLAY, MISMATCH, "Invalid receipt format",
            "TypeError", "AttributeError"}

MalformedReasons == {"Invalid receipt format", "TypeError", "AttributeError"}

\* C16: the message of a rejection names its cause: the four policy rejections carry
\* four different messages, each returned for its own check and no other, and none
\* of them is the message of a malformed receipt
C16_ReasonsDistinguishable ==
    /\ Cardinality({UNAUTHORIZED, UNAPPROVED, REPLAY, MISMATCH} \cup MalformedReasons) = 7
    /\ (IsVerify /\ ~ret.success)
       => /\ (ret.msg \in MalformedReasons) <=> ~WellFormedCall
          /\ WellFormedCall
             => /\ (ret.msg = UNAUTHORIZED) <=> ~WasAuthorized
                /\ (ret.msg = UNAPPROVED) <=> (WasAuthorized /\ ~WasApproved)
                /\ (ret.msg = REPLAY)
                       <=> (WasAuthorized /\ WasApproved
                               /\ LastReceipt.counter <= LastCounterBefore)
                /\ (ret.msg = MISMATCH)
                       <=> (WasAuthorized /\ WasApproved
                               /\ LastReceipt.counter > LastCounterBefore
                               /\ ~DigestIsCanonical)

\* a replayed counter on a receipt whose digest is wrong as well: the message is the
\* replay message
C16_Witness ==
    /\ WellFormedCall /\ WasAuthorized /\ WasApproved /\ ~DigestIsCanonical
    /\ LastReceipt.counter <= LastCounterBefore
    /\ RejectedWith(REPLAY)

HexFields == {"hardware_identity", "firmware_hash", "execution_hash", "receipt_digest"}

\* a hex string, with or without the 0x marker, of a number of bytes other than 32
DecodesToWrongLength(v) ==
    /\ v.t = "str"
    /\ FromHexOk(Strip0x(v.s))
    /\ Len(FromHex(Strip0x(v.s))) # HASH_LEN

CounterAbsentOrOutOfRange(fields) ==
    \/ "counter" \notin DOMAIN fields
    \/ fields["counter"].t = "int"
           /\ (fields["counter"].n < 0 \/ fields["counter"].n > U64_MAX)

\* the inputs the codec has to reject as malformed
ListedMalformed(j) ==
    \/ j.kind = "undecodable"
    \/ /\ j.kind = "object"
       /\ \/ \E k \in HexFields \cap DOMAIN j.fields : DecodesToWrongLength(j.fields[k])
          \/ CounterAbsentOrOutOfRange(j.fields)

\* C17: an input with a hex field of a length other than 32 bytes, with the counter
\* absent, negative or above 2^64 - 1, or that is no JSON, is rejected as malformed,
\* before any of the four checks runs and with no change of the verifier's fields
C17_MalformedRejectedByCodec ==
    (IsVerify /\ ListedMalformed(call.json_blob))
    => /\ RejectedWith("Invalid receipt format")
       /\ checks_run = <<>>
       /\ counter_db = pre.counter_db
       /\ authorized_nodes = pre.authorized_nodes
       /\ approved_firmware = pre.approved_firmware

\* C18: parsing a receipt without firmware_hash gives a result that differs from
\* parsing the same receipt with an explicit all-zero firmware_hash
C18_DefaultedFirmwareVisible ==
    \A hw \in HwHexes, c \in 0..MaxCounter, dk \in DigestKinds :
        (IsVerify /\ call.json_blob = TestReceipts[hw, "omitted", c, dk])
        => ParseTable[call.json_blob] # ParseTable[TestReceipts[hw, "zero", c, dk]]

\* C19: a receipt without firmware_hash is never accepted, whatever firmware has
\* been approved and whatever digest the receipt carries
C19_OmittedFirmwareNeverAccepted ==
    (IsVerify /\ call.json_blob.kind = "object"
        /\ "firmware_hash" \notin DOMAIN call.json_blob.fields)
    => ~ret.success

IsOtherLayout == IsVerify /\ call.json_blob \in OtherLayoutBlobs

\* C20 as stated: a receipt whose digest was computed under another layout of the
\* repository is rejected with the digest-mismatch reason
C20_Original == IsOtherLayout => RejectedWith(MISMATCH)

\* C20, amended: a receipt whose digest was computed under another layout is never
\* accepted, and it is rejected with the digest-mismatch reason when it passes the
\* identity, firmware and monotonicity checks
C20_OneLayout ==
    /\ IsOtherLayout => ~ret.success
    /\ (IsOtherLayout /\ WasAuthorized /\ WasApproved
            /\ LastReceipt.counter > LastCounterBefore) => RejectedWith(MISMATCH)

\* the chain-scoped digest of benchmark_receipts on an otherwise acceptable receipt
C20_Witness ==
    /\ IsOtherLayout /\ WasAuthorized /\ WasApproved
    /\ LastReceipt.counter = LastCounterBefore + 1
    /\ LastReceipt.receipt_digest
           = compute_digest(CHAIN_ID_DEFAULT, LastReceipt.hardware_identity,
                            LastReceipt.firmware_hash, LastReceipt.execution_hash,
                            LastReceipt.counter)
    /\ RejectedWith(MISMATCH)

IsGenerated == IsVerify /\ call.json_blob \in GeneratedBlobs

\* C21: a receipt returned by generate_test_receipt parses, its digest is the digest
\* the verifier reconstructs from its fields, and it is accepted whenever its hardware
\* is authorized, its firmware approved and its counter above last_counter
C21_GeneratedReceiptPasses ==
    IsGenerated
    => /\ WellFormedCall /\ DigestIsCanonical
       /\ ret.msg # MISMATCH
       /\ (WasAuthorized /\ WasApproved /\ LastReceipt.counter > LastCounterBefore)
              => ret.success

\* a generated receipt of the node the administrator added, with the all-zero
\* firmware hash the administrator approved, is accepted
C21_Witness ==
    /\ IsGenerated /\ ret.success
    /\ LastReceipt.hardware_identity = HW_FF
    /\ LastReceipt.firmware_hash = Rep(HASH_LEN, 0)

\* the counters of the receipts accepted so far for the hardware identity hw
AcceptedFor(hw) == {a[2] : a \in {k \in accepted : k[1] = hw}}

\* C22: after any sequence of verify_attestation calls made one at a time,
\* last_counter of a hardware identity is the highest counter accepted for it, and
\* the identity has no entry when nothing was accepted for it
C22_LastCounterIsHighestAccepted ==
    \A hw \in {HW_ALPHA, HW_FF} :
        IF AcceptedFor(hw) = {}
        THEN hw \notin DOMAIN counter_db /\ last_counter(counter_db, hw) = 0
        ELSE /\ counter_db[hw] \in AcceptedFor(hw)
             /\ \A c \in AcceptedFor(hw) : c <= counter_db[hw]

\* two receipts were accepted for one node, the other node has none
C22_Witness ==
    /\ AcceptedFor(HW_FF) = {1, 2} /\ counter_db[HW_FF] = 2
    /\ AcceptedFor(HW_ALPHA) = {}

\* C23: verify_attestation leaves authorized_nodes and approved_firmware as they
\* were, whatever its outcome; an entry of authorized_nodes appears only in a call
\* of add_authorized_node and an entry of approved_firmware only in a call of
\* add_approved_firmware, and no call removes an entry of either.
C23_RegistriesChangeOnlyByAdmin ==
    [][/\ call'.op = "verify_attestation" =>
              /\ authorized_nodes' = authorized_nodes
              /\ approved_firmware' = approved_firmware
       /\ authorized_nodes' # authorized_nodes => call'.op = "add_authorized_node"
       /\ approved_firmware' # approved_firmware => call'.op = "add_approved_firmware"
       /\ DOMAIN authorized_nodes \subseteq DOMAIN authorized_nodes'
       /\ approved_firmware \subseteq approved_firmware']_vars

\* a rejected and an accepted verification, each with both registries grown by
\* the management calls and left as the call found them
C23_Witness ==
    /\ IsVerify
    /\ ~ret.success
    /\ LastReceipt.hardware_identity \in DOMAIN authorized_nodes
    /\ DOMAIN authorized_nodes = {HW_ALPHA, HW_FF}
    /\ Cardinality(approved_firmware) = 2
    /\ authorized_nodes = pre.authorized_nodes
    /\ approved_firmware = pre.approved_firmware
    /\ accepted # {}

\* C24: once counter_db holds an entry for a hardware identity it holds one in
\* every later state, under verify_attestation, the registry calls,
\* save_counter_state and load_counter_state
C24_EntryNeverRemoved ==
    [][DOMAIN counter_db \subseteq DOMAIN counter_db']_vars

IsPack == call.op = "pack_v1"

\* every field of the last pack_v1 call has its declared width
DeclaredWidths ==
    /\ Len(call.hw_id) = HASH_LEN
    /\ Len(call.fw_hash) = HASH_LEN
    /\ Len(call.exec_hash) = HASH_LEN
    /\ Len(call.claimed_digest) = HASH_LEN
    /\ call.counter \in 0..U64_MAX

\* the record has the version-1 layout of the fields it was packed from
HasLayoutV1(record) ==
    /\ Len(record) = 137
    /\ record[1] = 1
    /\ SubSeq(record, 2, 33) = call.hw_id
    /\ SubSeq(record, 34, 65) = call.fw_hash
    /\ SubSeq(record, 66, 97) = call.exec_hash
    /\ SubSeq(record, 98, 105) = CounterBE(call.counter)
    /\ SubSeq(record, 106, 137) = call.claimed_digest

\* C25: a record returned by pack_v1 has the version byte 1, then the hardware
\* identity, the firmware hash and the execution hash (32 bytes each), the
\* counter (8 bytes, big-endian) and the claimed digest (32 bytes) at their
\* fixed offsets, 137 bytes in all; when a field does not have its declared
\* width pack_v1 raises
C25_PackedLayout ==
    IsPack =>
        /\ ret.success => HasLayoutV1(ret.value)
        /\ ~DeclaredWidths => ~ret.success

\* the last call decoded the buffer of a make_packed_batch call on a hardware
\* identity and a firmware hash of the declared width
UnpackedBatch ==
    /\ call.op = "unpack_batch"
    /\ call.packed_by.op = "make_packed_batch"
    /\ Len(call.packed_by.hw_id) = HASH_LEN
    /\ Len(call.packed_by.fw_hash) = HASH_LEN

\* the i-th receipt make_packed_batch was asked to pack
BatchReceipt(b, i) ==
    LET counter == b.start_counter + i - 1
        ex == keccak(EXEC_PREFIX \o CounterBE(counter))
    IN  Receipt(b.hw_id, b.fw_hash, ex, counter,
                keccak(ANCHOR_RCT_DOMAIN \o CounterBE(CHAIN_ID_DEFAULT) \o b.hw_id
                           \o b.fw_hash \o ex \o CounterBE(counter)))

\* C26: a buffer packed from N receipts is N records of 137 bytes, the i-th
\* record holding the i-th receipt, with nothing between them; unpacking it
\* gives the N receipts back, in order and with the same fields (N = 0, 1, more)
C26_PackUnpackRoundTrip ==
    UnpackedBatch =>
        /\ Len(call.buffer) = 137 * call.packed_by.n
        /\ ret.success
        /\ Len(ret.value) = call.packed_by.n
        /\ \A i \in 1..call.packed_by.n :
              /\ ret.value[i] = BatchReceipt(call.packed_by, i)
              /\ SubSeq(call.buffer, 137 * (i - 1) + 2, 137 * (i - 1) + 33)
                     = call.packed_by.hw_id
              /\ call.buffer[137 * (i - 1) + 105] = call.packed_by.start_counter + i - 1

\* a batch of two receipts, and the empty batch, packed and unpacked
C26_Witness ==
    /\ UnpackedBatch
    /\ call.packed_by.n = 2
    /\ call.packed_by.start_counter = 1
    /\ Len(ret.value) = 2
    /\ ret.value[2].counter = 2

\* the last call processed a buffer that is a whole number of records, each with
\* the version byte 1
ProcessedValidBatch ==
    /\ call.op = "process_batch"
    /\ Len(call.buffer) % 137 = 0
    /\ \A i \in 1..(Len(call.buffer) \div 137) : call.buffer[137 * (i - 1) + 1] = 1

BatchSize == Len(call.buffer) \div 137

\* the i-th record of the last batch, as a receipt
BatchRecord(i) == DecodeRecord(RecordAt(call.buffer, i))

\* the counter a sequential verifier holds for hw when it comes to the i-th
\* record: the store's before the batch, or that of the last accepted earlier
\* record of hw
CounterSeenBy(i, hw) ==
    LET earlier == {k \in 1..(i - 1) :
                       ret.value[k].success /\ BatchRecord(k).hardware_identity = hw}
    IN  IF earlier = {} THEN last_counter(pre.counter_db, hw)
        ELSE BatchRecord(CHOOSE k \in earlier : \A m \in earlier : m <= k).counter

\* what one call of the verifier answers on the i-th record
SequentialAnswer(i) ==
    LET r == BatchRecord(i)
    IN  IF r.hardware_identity \notin DOMAIN pre.authorized_nodes THEN UNAUTHORIZED
        ELSE IF r.firmware_hash \notin pre.approved_firmware THEN UNAPPROVED
        ELSE IF r.counter <= CounterSeenBy(i, r.hardware_identity) THEN REPLAY
        ELSE IF r.receipt_digest # DigestTable[r] THEN MISMATCH
        ELSE VALID

\* C27: a structurally valid batch is processed as the verifier called on each
\* record in order against the live store: one outcome per record, in order,
\* each the verifier's answer given the counters left by the accepted records
\* before it; a rejection does not stop the batch; the store ends where the
\* sequential calls leave it
C27_BatchIsSequentialVerification ==
    ProcessedValidBatch =>
        /\ ret.success
        /\ Len(ret.value) = BatchSize
        /\ \A i \in 1..BatchSize :
              /\ ret.value[i].msg = SequentialAnswer(i)
              /\ ret.value[i].success <=> (SequentialAnswer(i) = VALID)
        /\ \A hw \in {HW_ALPHA, HW_FF} :
              last_counter(counter_db, hw) = CounterSeenBy(BatchSize + 1, hw)

\* a batch of three: counter 1 accepted, the unauthorized node rejected, and
\* counter 1 again rejected as a replay of the first record
C27_Witness ==
    /\ ProcessedValidBatch
    /\ BatchSize = 3
    /\ pre.counter_db = <<>>
    /\ BatchRecord(1).hardware_identity = HW_ALPHA /\ BatchRecord(1).counter = 1
    /\ ret.value[1].success
    /\ ret.value[2].msg = UNAUTHORIZED
    /\ BatchRecord(3) = BatchRecord(1)
    /\ ret.value[3].msg = REPLAY
    /\ counter_db[HW_ALPHA] = 1

\* C28: a batch whose length is no multiple of 137, or with a record whose
\* version byte is not recognized, is rejected whole: no outcome is produced
\* and counter_db is as before, also when records in front were valid
C28_MalformedBatchRejectedWhole ==
    (call.op = "process_batch" /\ ~ProcessedValidBatch) =>
        /\ ~ret.success
        /\ ret.value = <<>>
        /\ counter_db = pre.counter_db
        /\ accepted = pre.accepted

\* a buffer of an acceptable record followed by one of an unknown version
C28_Witness ==
    /\ call.op = "process_batch"
    /\ Len(call.buffer) = 2 * 137
    /\ call.buffer[1] = 1
    /\ call.buffer[138] = 2
    /\ BatchRecord(1).hardware_identity = HW_ALPHA
    /\ BatchRecord(1).counter = 1
    /\ BatchRecord(1).receipt_digest = DigestTable[BatchRecord(1)]
    /\ pre.counter_db = <<>>
    /\ ~ret.success

\* the positions, in the order identity, firmware, monotonicity, digest, of the
\* checks the receipt of the last call fails against the store it was given
FailingChecks ==
    {i \in 1..4 : \/ i = 1 /\ ~WasAuthorized
                  \/ i = 2 /\ ~WasApproved
                  \/ i = 3 /\ LastReceipt.counter <= LastCounterBefore
                  \/ i = 4 /\ ~DigestIsCanonical}

FirstFailing == CHOOSE i \in FailingChecks : \A k \in FailingChecks : i <= k

\* C29: a receipt that fails more than one check is rejected with the reason of
\* the first check it fails, in the order identity, firmware, monotonicity,
\* digest, and the checks after that one are not run
C29_FirstFailingCheckReported ==
    (WellFormedCall /\ Cardinality(FailingChecks) > 1)
    => /\ ~ret.success
       /\ ret.msg = <<UNAUTHORIZED, UNAPPROVED, REPLAY, MISMATCH>>[FirstFailing]
       /\ checks_run = SubSeq(CheckNames, 1, FirstFailing)

\* authorized hardware, with firmware, counter and digest all failing
C29_Witness ==
    /\ WellFormedCall
    /\ FailingChecks = {2, 3, 4}
    /\ ret.msg = UNAPPROVED
    /\ checks_run = <<"identity", "firmware">>

\* C30: verify_attestation returns success exactly when the receipt parses, its
\* hardware identity is in authorized_nodes, its firmware hash is in
\* approved_firmware, its counter is above last_counter of its hardware identity
\* and its digest is the canonical digest of its fields; a counter more than one
\* above last_counter is accepted like any other, and last_counter becomes it
C30_SuccessIffAllHold ==
    IsVerify =>
        /\ ret.success <=> /\ WellFormedCall
                           /\ WasAuthorized
                           /\ WasApproved
                           /\ LastReceipt.counter > LastCounterBefore
                           /\ DigestIsCanonical
        /\ ret.success => counter_db[LastReceipt.hardware_identity] = LastReceipt.counter

\* counter 2 accepted by a node whose last counter was 0
C30_Witness ==
    /\ WellFormedCall
    /\ ret.success
    /\ LastCounterBefore = 0
    /\ LastReceipt.counter = 2
    /\ counter_db[LastReceipt.hardware_identity] = 2

\* C31: a receipt with counter 0 parses as well-formed and is never accepted;
\* from an authorized device with approved firmware it is rejected as a replay,
\* also when the device has never submitted before
C31_CounterZeroNeverAccepted ==
    /\ \A a \in accepted : a[2] # 0
    /\ (WellFormedCall /\ LastReceipt.counter = 0)
       => /\ ~ret.success
          /\ (WasAuthorized /\ WasApproved) => RejectedWith(REPLAY)

\* counter 0 with its canonical digest, from the default node before any
\* receipt of it was accepted
C31_Witness ==
    /\ WellFormedCall /\ WasAuthorized /\ WasApproved /\ DigestIsCanonical
    /\ LastReceipt.counter = 0
    /\ LastReceipt.hardware_identity \notin DOMAIN pre.counter_db
    /\ RejectedWith(REPLAY)
    /\ checks_run = <<"identity", "firmware", "monotonicity">>

\* C32: under verify_attestation and the administrative operations, every key
\* of counter_db is a key of authorized_nodes
C32_CountersOnlyForAuthorized ==
    DOMAIN counter_db \subseteq DOMAIN authorized_nodes

\* a node registered by add_authorized_node, with a counter recorded for it
C32_Witness ==
    /\ DOMAIN pre.counter_db = {HW_ALPHA}
    /\ DOMAIN counter_db = {HW_ALPHA, HW_FF}
    /\ IsVerify /\ ret.success

AdminOps == {"add_authorized_node", "add_approved_firmware", "get_node_status"}

\* C33: add_authorized_node, add_approved_firmware and get_node_status leave
\* counter_db as it was; authorizing an identity again replaces its label only,
\* so every receipt accepted before the call is still at or below last_counter
\* after it, and is rejected as a replay when it is submitted again
C33_AdminKeepsCounters ==
    /\ [][call'.op \in AdminOps
             => /\ counter_db' = counter_db
                /\ \A a \in accepted' : a[2] <= last_counter(counter_db', a[1])
                /\ (call'.op = "add_authorized_node" /\ ret'.success)
                       => authorized_nodes'[AdminBytesTable[call'.hex].v] = call'.name]_vars
    /\ []((WellFormedCall /\ WasAuthorized /\ WasApproved /\ LastKey \in pre.accepted)
             => RejectedWith(REPLAY))

\* the default node, with a counter recorded, is registered again under a new label
C33_Witness ==
    /\ call.op = "add_authorized_node"
    /\ AdminBytesTable[call.hex].v = HW_ALPHA
    /\ pre.authorized_nodes[HW_ALPHA] = "Alpha_Node_S3"
    /\ authorized_nodes[HW_ALPHA] = "Development_ESP32_S3_Alpha"
    /\ HW_ALPHA \in DOMAIN pre.counter_db
    /\ counter_db = pre.counter_db
    /\ <<HW_ALPHA, 1>> \in accepted

\* C34: every key of authorized_nodes and every member of approved_firmware is
\* 32 bytes long
C34_RegistryWidths ==
    /\ \A hw \in DOMAIN authorized_nodes : Len(hw) = 32
    /\ \A fw \in approved_firmware : Len(fw) = 32

\* the file exists and holds counter_db: an entry, under the hex form of its
\* key, for each hardware identity of counter_db and for no other, with its counter
FileHoldsCounters ==
    /\ counter_file.exists
    /\ Cardinality(DOMAIN counter_file.state) = Cardinality(DOMAIN counter_db)
    /\ \A hw \in DOMAIN counter_db :
          /\ ToHex(hw) \in DOMAIN counter_file.state
          /\ counter_file.state[ToHex(hw)] = counter_db[hw]

\* C35: save_counter_state leaves a file holding counter_db, and the file keeps
\* holding it through every call that accepts no receipt; load_counter_state
\* called while it does leaves counter_db exactly the saved mapping, and called
\* when no file exists leaves counter_db unchanged
C35_LoadRestoresSaved ==
    [][/\ call'.op = "save_counter_state" => FileHoldsCounters'
       /\ (FileHoldsCounters /\ ~(call'.op = "verify_attestation" /\ ret'.success))
              => (FileHoldsCounters' /\ counter_db' = counter_db)
       /\ (call'.op = "load_counter_state" /\ ~counter_file.exists)
              => counter_db' = counter_db]_vars

\* two nodes with a counter each, saved, a rejected receipt, then loaded
C35_Witness ==
    /\ call.op = "load_counter_state"
    /\ FileHoldsCounters
    /\ DOMAIN counter_db = {HW_ALPHA, HW_FF}
    /\ counter_db = pre.counter_db
    /\ accepted = pre.accepted

\* C36: the transaction labelled 'verifyReceipt success' carries a receipt that
\* satisfies the verifier's rules: its claimed digest is the digest of its own
\* fields, counter argument included, and its counter is above the on-chain
\* counter read just before; the 'invalid digest' transaction differs from it
\* in the digest only
C36_SuccessTransactionIsValid ==
    call.op = "single_transactions" =>
        LET tx == ret.value.success
            bad == ret.value.invalid_digest
        IN  /\ ret.success
            /\ tx.claimed_digest
                   = keccak(ANCHOR_RCT_DOMAIN \o CounterBE(CHAIN_ID_DEFAULT) \o tx.hw_id
                                \o tx.fw_hash \o tx.exec_hash \o CounterBE(tx.counter))
            /\ tx.counter > call.current_counter
            /\ bad.claimed_digest # tx.claimed_digest
            /\ [bad EXCEPT !.claimed_digest = tx.claimed_digest] = tx

====
